---- MODULE Spec2Model ----
(***************************************************************************)
(* A model of zephyr/types.py: the load / dump / validate protocol of the  *)
(* type descriptors (Any, Integer, String, Boolean, List, Tuple, Dict,     *)
(* Object), the Field variants, and the DictWithDefault key-to-type lookup.*)
(*                                                                         *)
(* Python values are records [k, v]: k names the run-time class and v is   *)
(* the payload.  A call's outcome is a record [st, val]: st is "ok" (val   *)
(* is the returned value) or the class of the exception that left the call *)
(* (val is then the exception's messages).                                 *)
(***************************************************************************)
EXTENDS Integers, Sequences, FiniteSets, TLC

VARIABLES op, schema, field_name, data, outcome, origin, heap, insts, last

vars == <<op, schema, field_name, data, outcome, origin, heap, insts, last>>

callVars == <<op, schema, field_name, data, outcome, origin>>

dictVars == <<heap, insts, last>>

-----------------------------------------------------------------------------
(* Python values *)

MISSING == [k |-> "MISSING", v |-> 0]

None == [k |-> "None", v |-> 0]

IntV(n) == [k |-> "int", v |-> n]

StrV(s) == [k |-> "str", v |-> s]

BoolV(b) == [k |-> "bool", v |-> b]

\* a list: v is the sequence of its items
ListV(s) == [k |-> "list", v |-> s]

\* a dict: v is the sequence of its <<key, value>> items in iteration order
DictV(s) == [k |-> "dict", v |-> s]

\* an object with attributes: v maps each attribute name to its member
ObjV(f) == [k |-> "object", v |-> f]

\* a bound method that takes no argument and returns r
MethodV(r) == [k |-> "method", v |-> r]

EmptyMap == [n \in {} |-> None]

DictKeys(d) == {d.v[i][1] : i \in 1..Len(d.v)}

\* data.get(name, MISSING)
DictGet(d, name) ==
    IF name \in DictKeys(d)
    THEN LET i == CHOOSE j \in 1..Len(d.v) : d.v[j][1] = name IN d.v[i][2]
    ELSE MISSING

\* result[k] = x on a dict held as its item sequence
DictPut(s, key, x) ==
    IF \E i \in 1..Len(s) : s[i][1] = key
    THEN [i \in 1..Len(s) |-> IF s[i][1] = key THEN <<key, x>> ELSE s[i]]
    ELSE Append(s, <<key, x>>)

\* hasattr(obj, name): only the modelled objects carry the modelled names
HasAttr(obj, name) == obj.k = "object" /\ name \in DOMAIN obj.v

\* getattr(obj, name, MISSING)
GetAttr(obj, name) == IF HasAttr(obj, name) THEN obj.v[name] ELSE MISSING

Callable(m) == m.k = "method"

\* isinstance(v, int_types): bool is a subclass of int
IsInt(v) == v.k \in {"int", "bool"}

\* isinstance(v, string_types)
IsString(v) == v.k = "str"

\* isinstance(v, bool)
IsBool(v) == v.k = "bool"

is_list(v) == v.k = "list"

is_dict(v) == v.k = "dict"

\* str(value)
PyStr(v) ==
    CASE v.k = "str" -> v
      [] v.k = "int" -> StrV(ToString(v.v))
      [] v.k = "bool" -> StrV(IF v.v THEN "True" ELSE "False")
      [] v.k = "None" -> StrV("None")
      [] OTHER -> StrV("<" \o v.k \o ">")

\* bool(value)
PyBool(v) ==
    CASE v.k = "bool" -> v
      [] v.k = "int" -> BoolV(v.v # 0)
      [] v.k = "str" -> BoolV(v.v # "")
      [] v.k \in {"list", "dict"} -> BoolV(Len(v.v) > 0)
      [] v.k \in {"None", "MISSING"} -> BoolV(v.k = "MISSING")
      [] OTHER -> BoolV(TRUE)

-----------------------------------------------------------------------------
(* Outcomes and error messages *)

Ok(v) == [st |-> "ok", val |-> v]

Msg(s) == [k |-> "msg", v |-> s]

\* the messages several validators raised, merged
MsgList(s) == [k |-> "msgs", v |-> s]

\* a mapping from list index or key to messages
Tree(f) == [k |-> "tree", v |-> f]

\* raise ValidationError(messages)
ValidationError(m) == [st |-> "ValidationError", val |-> m]

\* an exception that is not a validation failure
Raise(cls, text) == [st |-> cls, val |-> Msg(text)]

Returned(o) == o.st = "ok"

Invalid(o) == o.st = "ValidationError"

Crashed(o) == ~Returned(o) /\ ~Invalid(o)

\* ValidationErrorBuilder: add_error / add_errors keep a mapping, and
\* raise_errors raises it when it is not empty
raise_errors(errors, continuation) ==
    IF DOMAIN errors # {} THEN ValidationError(Tree(errors)) ELSE continuation

-----------------------------------------------------------------------------
(* Type descriptors: [cls, of, validators].  `of` holds what the class's   *)
(* constructor stores: List.item_type, Tuple.item_types, Dict.value_types, *)
(* or Object's fields, constructor and allow_extra_fields.                 *)

TypeOf(cls, of, validators) == [cls |-> cls, of |-> of, validators |-> validators]

\* value_type is None
NoType == TypeOf("None", 0, <<>>)

AnyT == TypeOf("Any", 0, <<>>)

Integer == TypeOf("Integer", 0, <<>>)

String == TypeOf("String", 0, <<>>)

Boolean == TypeOf("Boolean", 0, <<>>)

List(item_type) == TypeOf("List", item_type, <<>>)

Tuple(item_types) == TypeOf("Tuple", item_types, <<>>)

\* a DictWithDefault held by value: its values mapping and its default
DictWithDefault(values, default) == [default |-> default, values |-> values]

Dict(value_types) == TypeOf("Dict", value_types, <<>>)

Object(fields, constructor, allow_extra_fields) ==
    TypeOf("Object",
           [allow_extra_fields |-> allow_extra_fields,
            constructor |-> constructor,
            fields |-> fields],
           <<>>)

\* Type(validate=[...])
WithValidators(t, validators) == [t EXCEPT !.validators = validators]

Field(cls, field_type, param) == [cls |-> cls, field_type |-> field_type, param |-> param]

ConstantField(field_type, value) == Field("ConstantField", field_type, value)

\* attribute = "" stands for attribute=None
AttributeField(field_type, attribute) == Field("AttributeField", field_type, attribute)

\* method = "" stands for method=None
MethodField(field_type, method) == Field("MethodField", field_type, method)

FunctionField(field_type, function) == Field("FunctionField", field_type, function)

\* the keys of the class's default_error_messages
default_error_messages(cls) ==
    CASE cls = "Tuple" -> {"invalid_type", "required", "invalid_length"}
      [] cls = "Object" -> {"invalid_type", "required", "unknown"}
      [] OTHER -> {"invalid_type", "required"}

\* the template of an error kind, formatted with the call's parameter
FormatMessage(key, param) ==
    CASE key = "invalid_type" -> "Value should be " \o param
      [] key = "required" -> "Value is required"
      [] key = "invalid_length" -> "Value length should be " \o param
      [] key = "unknown" -> "Unknown field"
      [] OTHER -> key

_fail(t, key, param) ==
    IF key \notin default_error_messages(t.cls)
    THEN Raise("ValueError", "Error message " \o key \o " in class " \o t.cls \o " does not exist")
    ELSE ValidationError(Msg(FormatMessage(key, param)))

\* the user's validators: "reject" raises a validation failure on every
\* value, "accept" on none
ValidatorFails(validator, d) == validator = "reject"

\* Type.load: the extra validators, their failures merged
Type_load(t, d) ==
    LET raised == SelectSeq(t.validators, LAMBDA v : ValidatorFails(v, d))
    IN IF raised = <<>>
       THEN Ok(d)
       ELSE ValidationError(MsgList([i \in 1..Len(raised) |-> "rejected"]))

\* Type.dump
Type_dump(t, value) == Ok(value)

IsAbsent(d) == d = MISSING \/ d = None

\* the common shape of the scalar load and dump methods
Scalar(t, d, isKind, expected, continuation) ==
    IF IsAbsent(d) THEN _fail(t, "required", "")
    ELSE IF ~isKind THEN _fail(t, "invalid_type", expected)
    ELSE continuation

Integer_load(t, d) == Scalar(t, d, IsInt(d), "integer", Type_load(t, d))

\* Integer.dump with String.dump's conversion to text
Integer_dump_as_text(t, value) ==
    Scalar(t, value, IsInt(value), "integer", Type_dump(t, PyStr(value)))

Integer_dump(t, value) == Scalar(t, value, IsInt(value), "integer", Type_dump(t, value))

String_load(t, d) == Scalar(t, d, IsString(d), "string", Type_load(t, d))

String_dump(t, value) ==
    Scalar(t, value, IsString(value), "string", Type_dump(t, PyStr(value)))

\* Boolean.load with the integer check in place of the boolean one
Boolean_load_accepts_int(t, d) == Scalar(t, d, IsInt(d), "boolean", Type_load(t, d))

Boolean_load(t, d) == Scalar(t, d, IsBool(d), "boolean", Type_load(t, d))

Boolean_dump(t, value) ==
    Scalar(t, value, IsBool(value), "boolean", Type_dump(t, PyBool(value)))

-----------------------------------------------------------------------------
(* DictWithDefault, on the mapping its `values` attribute refers to *)

DictWithDefault_len(values) == Cardinality(DOMAIN values)

DictWithDefault_getitem(values, default, key) ==
    IF key \in DOMAIN values THEN values[key] ELSE default

DictWithDefault_setitem(values, key, value) ==
    [n \in DOMAIN values \cup {key} |-> IF n = key THEN value ELSE values[n]]

DictWithDefault_delitem(values, key) == [n \in DOMAIN values \ {key} |-> values[n]]

\* get that falls back on its own default argument, None, not on self.default
DictWithDefault_get_own_default(value_types, key) ==
    DictWithDefault_getitem(value_types.values, NoType, key)

\* get(key, default=None) returns self[key]
DictWithDefault_get(value_types, key) ==
    DictWithDefault_getitem(value_types.values, value_types.default, key)

-----------------------------------------------------------------------------
(* The composite types.  Each loop is a fold over the positions of the     *)
(* iterated sequence: `result` and `errors` are the loop's accumulators,   *)
(* and an exception that the loop's except clause does not catch leaves    *)
(* the loop at once.                                                       *)

RECURSIVE Load(_, _), Dump(_, _)

\* items.append(x)
list_append(items, x) == Ok(Append(items, x))

\* result.add(x) where result is a list
list_add(result, x) ==
    Raise("AttributeError", "'list' object has no attribute 'add'")

\* the name k in Object.dump, which nothing binds
Object_dump_k(name) == Raise("NameError", "name 'k' is not defined")

\* the name data in Tuple.dump, which nothing binds
Tuple_dump_data(value) == Raise("NameError", "name 'data' is not defined")

RECURSIVE List_loop(_, _, _, _, _, _)
List_loop(t, seq, loading, idx, items, errors) ==
    IF idx > Len(seq)
    THEN raise_errors(errors,
                      IF loading THEN Type_load(t, ListV(items))
                      ELSE Type_dump(t, ListV(items)))
    ELSE LET r == IF loading THEN Load(t.of, seq[idx]) ELSE Dump(t.of, seq[idx])
         IN IF Invalid(r)
            THEN List_loop(t, seq, loading, idx + 1, items, errors @@ ((idx - 1) :> r.val))
            ELSE IF Crashed(r) THEN r
            ELSE LET a == list_append(items, r.val)
                 IN IF ~Returned(a) THEN a
                    ELSE List_loop(t, seq, loading, idx + 1, a.val, errors)

List_load(t, d) ==
    IF IsAbsent(d) THEN _fail(t, "required", "")
    ELSE IF ~is_list(d) THEN _fail(t, "invalid_type", "list")
    ELSE List_loop(t, d.v, TRUE, 1, <<>>, EmptyMap)

List_dump(t, value) ==
    IF IsAbsent(value) THEN _fail(t, "required", "")
    ELSE IF ~is_list(value) THEN _fail(t, "invalid_type", "list")
    ELSE List_loop(t, value.v, FALSE, 1, <<>>, EmptyMap)

RECURSIVE Tuple_loop(_, _, _, _, _, _)
Tuple_loop(t, seq, loading, idx, result, errors) ==
    IF idx > Len(seq)
    THEN raise_errors(errors,
                      IF loading THEN Type_load(t, ListV(result))
                      ELSE Type_dump(t, ListV(result)))
    ELSE LET r == IF loading THEN Load(t.of[idx], seq[idx]) ELSE Dump(t.of[idx], seq[idx])
         IN IF Invalid(r)
            THEN Tuple_loop(t, seq, loading, idx + 1, result, errors @@ ((idx - 1) :> r.val))
            ELSE IF Crashed(r) THEN r
            ELSE LET a == list_add(result, r.val)
                 IN IF ~Returned(a) THEN a
                    ELSE Tuple_loop(t, seq, loading, idx + 1, a.val, errors)

Tuple_load(t, d) ==
    IF IsAbsent(d) THEN _fail(t, "required", "")
    ELSE IF ~is_list(d) THEN _fail(t, "invalid_type", "list")
    ELSE IF Len(d.v) # Len(t.of)
    THEN _fail(t, "invalid_length", ToString(Len(t.of)))
    ELSE Tuple_loop(t, d.v, TRUE, 1, <<>>, EmptyMap)

Tuple_dump(t, value) ==
    IF IsAbsent(value) THEN _fail(t, "required", "")
    ELSE LET d == Tuple_dump_data(value)
         IN IF ~Returned(d) THEN d
            ELSE IF ~is_list(d.val) THEN _fail(t, "invalid_type", "list")
            ELSE IF Len(value.v) # Len(t.of)
            THEN _fail(t, "invalid_length", ToString(Len(t.of)))
            ELSE Tuple_loop(t, value.v, FALSE, 1, <<>>, EmptyMap)

RECURSIVE Dict_loop(_, _, _, _, _, _)
Dict_loop(t, seq, loading, idx, result, errors) ==
    IF idx > Len(seq)
    THEN raise_errors(errors,
                      IF loading THEN Type_load(t, DictV(result))
                      ELSE Type_dump(t, DictV(result)))
    ELSE LET key == seq[idx][1]
             value_type == DictWithDefault_get(t.of, key)
         IN IF value_type = NoType
            THEN Dict_loop(t, seq, loading, idx + 1, result, errors)
            ELSE LET r == IF loading THEN Load(value_type, seq[idx][2])
                          ELSE Dump(value_type, seq[idx][2])
                 IN IF Invalid(r)
                    THEN Dict_loop(t, seq, loading, idx + 1, result, errors @@ (key :> r.val))
                    ELSE IF Crashed(r) THEN r
                    ELSE Dict_loop(t, seq, loading, idx + 1, DictPut(result, key, r.val), errors)

Dict_load(t, d) ==
    IF IsAbsent(d) THEN _fail(t, "required", "")
    ELSE IF ~is_dict(d) THEN _fail(t, "invalid_type", "dict")
    ELSE Dict_loop(t, d.v, TRUE, 1, <<>>, EmptyMap)

Dict_dump(t, value) ==
    IF IsAbsent(value) THEN _fail(t, "required", "")
    ELSE IF ~is_dict(value) THEN _fail(t, "invalid_type", "dict")
    ELSE Dict_loop(t, value.v, FALSE, 1, <<>>, EmptyMap)

-----------------------------------------------------------------------------
(* Fields *)

\* the user's function of a FunctionField, called with (name, obj)
CallFunction(function, name, obj) ==
    CASE function = "field_name" -> StrV(name)
      [] OTHER -> MISSING

ConstantField_get_value(field, name, obj) == Ok(field.param)

AttributeField_get_value(field, name, obj) ==
    Ok(GetAttr(obj, IF field.param # "" THEN field.param ELSE name))

\* _get_value reporting a missing or uncallable member as a validation failure
MethodField_get_value_invalid(field, name, obj) ==
    LET target == IF field.param # "" THEN field.param ELSE name
    IN IF ~HasAttr(obj, target) \/ ~Callable(GetAttr(obj, target))
       THEN ValidationError(Msg("Value is required"))
       ELSE Ok(GetAttr(obj, target).v)

MethodField_get_value(field, name, obj) ==
    LET target == IF field.param # "" THEN field.param ELSE name
    IN IF ~HasAttr(obj, target)
       THEN Raise("ValueError", "Object does not have method " \o target)
       ELSE IF ~Callable(GetAttr(obj, target))
       THEN Raise("ValueError", "Value " \o target \o " is not callable")
       ELSE Ok(GetAttr(obj, target).v)

FunctionField_get_value(field, name, obj) == Ok(CallFunction(field.param, name, obj))

Field_get_value(field, name, obj) ==
    CASE field.cls = "ConstantField" -> ConstantField_get_value(field, name, obj)
      [] field.cls = "AttributeField" -> AttributeField_get_value(field, name, obj)
      [] field.cls = "MethodField" -> MethodField_get_value(field, name, obj)
      [] field.cls = "FunctionField" -> FunctionField_get_value(field, name, obj)

\* Field.load, which AttributeField overrides
Field_load(field, name, d) ==
    IF field.cls = "AttributeField"
    THEN Load(field.field_type, DictGet(d, name))
    ELSE Ok(MISSING)

Field_dump(field, name, obj) ==
    LET value == Field_get_value(field, name, obj)
    IN IF ~Returned(value) THEN value ELSE Dump(field.field_type, value.val)

-----------------------------------------------------------------------------
(* Object: `fields` is the sequence of <<name, field>> in the iteration    *)
(* order of self.fields                                                    *)

FieldNames(t) == {t.of.fields[i][1] : i \in 1..Len(t.of.fields)}

\* self.constructor(**kwargs): dict, or a class that keeps its keyword
\* arguments as attributes
Construct(constructor, kwargs) ==
    IF constructor = "dict"
    THEN DictV(kwargs.v)
    ELSE ObjV([n \in DictKeys(kwargs) |-> DictGet(kwargs, n)])

RECURSIVE Object_load_unknown(_, _, _, _)
Object_load_unknown(t, seq, idx, errors) ==
    IF idx > Len(seq) THEN errors
    ELSE LET name == seq[idx][1]
         IN IF name \notin FieldNames(t)
            THEN Object_load_unknown(t, seq, idx + 1,
                                     errors @@ (name :> Msg(FormatMessage("unknown", ""))))
            ELSE Object_load_unknown(t, seq, idx + 1, errors)

Object_load_finish(t, d, result, errors) ==
    LET all == IF ~t.of.allow_extra_fields
               THEN Object_load_unknown(t, d.v, 1, errors)
               ELSE errors
        checked == Type_load(t, DictV(result))
    IN raise_errors(all,
                    IF Returned(checked)
                    THEN Ok(Construct(t.of.constructor, checked.val))
                    ELSE checked)

RECURSIVE Object_load_loop(_, _, _, _, _)
Object_load_loop(t, d, idx, result, errors) ==
    IF idx > Len(t.of.fields)
    THEN Object_load_finish(t, d, result, errors)
    ELSE LET name == t.of.fields[idx][1]
             r == Field_load(t.of.fields[idx][2], name, d)
         IN IF Invalid(r)
            THEN Object_load_loop(t, d, idx + 1, result, errors @@ (name :> r.val))
            ELSE IF Crashed(r) THEN r
            ELSE IF r.val # MISSING
            THEN Object_load_loop(t, d, idx + 1, DictPut(result, name, r.val), errors)
            ELSE Object_load_loop(t, d, idx + 1, result, errors)

Object_load(t, d) ==
    IF IsAbsent(d) THEN _fail(t, "required", "")
    ELSE IF ~is_dict(d) THEN _fail(t, "invalid_type", "dict")
    ELSE Object_load_loop(t, d, 1, <<>>, EmptyMap)

RECURSIVE Object_dump_loop(_, _, _, _, _)
Object_dump_loop(t, obj, idx, result, errors) ==
    IF idx > Len(t.of.fields)
    THEN raise_errors(errors, Type_dump(t, DictV(result)))
    ELSE LET name == t.of.fields[idx][1]
             r == Field_dump(t.of.fields[idx][2], name, obj)
         IN IF Invalid(r)
            THEN LET key == Object_dump_k(name)
                 IN IF ~Returned(key) THEN key
                    ELSE Object_dump_loop(t, obj, idx + 1, result,
                                          errors @@ (key.val :> r.val))
            ELSE IF Crashed(r) THEN r
            ELSE IF r.val # MISSING
            THEN Object_dump_loop(t, obj, idx + 1, DictPut(result, name, r.val), errors)
            ELSE Object_dump_loop(t, obj, idx + 1, result, errors)

Object_dump(t, obj) ==
    IF IsAbsent(obj) THEN _fail(t, "required", "")
    ELSE Object_dump_loop(t, obj, 1, <<>>, EmptyMap)

-----------------------------------------------------------------------------
(* The dispatch on the descriptor's class *)

Load(t, d) ==
    CASE t.cls = "Any" -> Type_load(t, d)
      [] t.cls = "Integer" -> Integer_load(t, d)
      [] t.cls = "String" -> String_load(t, d)
      [] t.cls = "Boolean" -> Boolean_load(t, d)
      [] t.cls = "List" -> List_load(t, d)
      [] t.cls = "Tuple" -> Tuple_load(t, d)
      [] t.cls = "Dict" -> Dict_load(t, d)
      [] t.cls = "Object" -> Object_load(t, d)

Dump(t, value) ==
    CASE t.cls = "Any" -> Type_dump(t, value)
      [] t.cls = "Integer" -> Integer_dump(t, value)
      [] t.cls = "String" -> String_dump(t, value)
      [] t.cls = "Boolean" -> Boolean_dump(t, value)
      [] t.cls = "List" -> List_dump(t, value)
      [] t.cls = "Tuple" -> Tuple_dump(t, value)
      [] t.cls = "Dict" -> Dict_dump(t, value)
      [] t.cls = "Object" -> Object_dump(t, value)

\* Type.validate: only a ValidationError is caught
Type_validate(t, d) ==
    LET r == Load(t, d)
    IN IF Returned(r) THEN Ok(DictV(<<>>))
       ELSE IF Invalid(r) THEN Ok(r.val)
       ELSE r

-----------------------------------------------------------------------------
(* The inputs of the calls *)

MaxInt == 1

MaxLen == 4

MaxArity == 2

MaxInsts == 2

SeqsUpTo(S, n) == UNION {[1..m -> S] : m \in 0..n}

\* the item sequences of the dicts with keys in K and values in V
ItemSeqs(K, V) ==
    {s \in SeqsUpTo(K \X V, Cardinality(K)) :
        \A i, j \in 1..Len(s) : i # j => s[i][1] # s[j][1]}

\* the mappings from some of the names in K to members of V
PartialMaps(K, V) == UNION {[D -> V] : D \in SUBSET K}

ScalarTypes == {Integer, String, Boolean}

ScalarValues ==
    {MISSING, None, StrV("x"), StrV("y"), BoolV(TRUE), BoolV(FALSE)}
    \cup {IntV(n) : n \in 0..MaxInt}

ElemValues == {IntV(1), StrV("x"), None, ListV(<<IntV(1)>>)}

SomeValues ==
    ScalarValues
    \cup {ListV(<<>>), ListV(<<IntV(1)>>), DictV(<<>>), DictV(<<<<"a", IntV(1)>>>>),
          ObjV(EmptyMap), ObjV([x |-> IntV(1)]), MethodV(IntV(1))}

ValidatorLists == {<<>>, <<"accept">>, <<"reject">>, <<"reject", "reject">>}

LeafCases ==
    {<<WithValidators(t, vs), d>> :
        t \in ScalarTypes \cup {AnyT}, vs \in ValidatorLists, d \in SomeValues}

ItemTypes ==
    ScalarTypes \cup {AnyT, WithValidators(Integer, <<"reject">>),
                      List(Integer), Tuple(<<Integer>>)}

ListCases ==
    {<<List(it), d>> : it \in ItemTypes, d \in {ListV(s) : s \in SeqsUpTo(ElemValues, MaxLen)}}
    \cup {<<WithValidators(List(Integer), vs), d>> :
            vs \in ValidatorLists \ {<<>>},
            d \in {ListV(s) : s \in SeqsUpTo({IntV(1), StrV("x")}, 2)}}
    \cup {<<List(Integer), d>> : d \in SomeValues}

TupleItemTypes == {Integer, String}

TupleCases ==
    {<<WithValidators(Tuple(its), vs), d>> :
        its \in SeqsUpTo(TupleItemTypes, MaxArity),
        vs \in {<<>>, <<"reject">>},
        d \in {ListV(s) : s \in SeqsUpTo({IntV(1), StrV("x"), None}, MaxArity + 1)}}
    \cup {<<Tuple(<<Integer, String>>), d>> : d \in SomeValues}

Keys == {"a", "b"}

ValueTypes == {Integer, String, Tuple(<<Integer>>)}

DictCases ==
    {<<WithValidators(Dict(DictWithDefault(values, default)), vs), DictV(s)>> :
        values \in PartialMaps(Keys, ValueTypes),
        default \in {NoType, Integer, AnyT},
        vs \in {<<>>, <<"reject">>},
        s \in ItemSeqs(Keys, {IntV(1), StrV("x"), ListV(<<IntV(1)>>)})}
    \cup {<<Dict(DictWithDefault([a |-> Integer], NoType)), d>> :
            d \in SomeValues \cup {DictV(<<<<"a", IntV(1)>>, <<"b", IntV(2)>>>>)}}

FieldNameSet == {"x", "y"}

\* the <<name, field>> sequences of the Objects with fields in F
FieldSeqs(F) == ItemSeqs(FieldNameSet, F)

LoadFields ==
    {AttributeField(t, "") : t \in {Integer, String, AnyT, Tuple(<<Integer>>)}}
    \cup {MethodField(Integer, ""), ConstantField(Integer, IntV(1))}

ObjectLoadCases ==
    {<<WithValidators(Object(fs, c, extra), vs), DictV(s)>> :
        fs \in FieldSeqs(LoadFields),
        c \in {"dict", "Record"},
        extra \in BOOLEAN,
        vs \in {<<>>},
        s \in {q \in ItemSeqs({"x", "y", "z"}, {IntV(1), StrV("x")}) :
                 \A i, j \in 1..Len(q) : i < j => q[i][1] \in {"x", "y"}}}
    \cup {<<WithValidators(Object(<<<<"x", AttributeField(Integer, "")>>>>, c, FALSE), <<"reject">>), d>> :
            c \in {"dict", "Record"},
            d \in {DictV(<<>>), DictV(<<<<"x", IntV(1)>>>>), DictV(<<<<"z", IntV(1)>>>>)}}
    \cup {<<Object(fs, "dict", FALSE), DictV(s)>> :
            fs \in FieldSeqs({AttributeField(Tuple(<<Integer>>), ""), AttributeField(Integer, "")}),
            s \in ItemSeqs({"x", "y"}, {ListV(<<IntV(1)>>)})}
    \cup {<<Object(<<<<"x", AttributeField(Integer, "")>>>>, "dict", FALSE), d>> :
            d \in SomeValues \cup {DictV(<<<<"x", IntV(1)>>, <<"y", IntV(2)>>>>)}}

DumpFields ==
    {AttributeField(t, "") : t \in {Integer, String, AnyT, Boolean}}
    \cup {AttributeField(Integer, "y"),
          MethodField(Integer, ""), MethodField(Integer, "total"),
          ConstantField(Integer, IntV(1)), ConstantField(Integer, StrV("x")),
          FunctionField(String, "field_name"), FunctionField(AnyT, "absent")}

Members == {IntV(1), StrV("x"), BoolV(TRUE), MethodV(IntV(1))}

Records ==
    {ObjV(m) : m \in PartialMaps(FieldNameSet, Members)}
    \cup {ObjV([total |-> MethodV(IntV(1))]), ObjV([x |-> IntV(1), z |-> IntV(1)]),
          DictV(<<>>), DictV(<<<<"x", IntV(1)>>>>), None, MISSING, IntV(1)}

ObjectDumpCases ==
    {<<Object(fs, c, TRUE), r>> :
        fs \in FieldSeqs(DumpFields), c \in {"dict", "Record"}, r \in Records}

LoadCases == LeafCases \cup ListCases \cup TupleCases \cup DictCases \cup ObjectLoadCases

DumpCases ==
    LeafCases \cup ObjectDumpCases
    \cup {<<List(it), d>> : it \in ItemTypes, d \in {ListV(s) : s \in SeqsUpTo(ElemValues, 2)}}
    \cup {<<Tuple(<<Integer>>), d>> : d \in SomeValues}
    \cup {<<Dict(DictWithDefault([a |-> Integer], default)), DictV(s)>> :
            default \in {NoType, String},
            s \in ItemSeqs(Keys, {IntV(1), StrV("x")})}

-----------------------------------------------------------------------------
(* The calls.  op is the method last called, schema the Type or Field it   *)
(* was called on, data its argument (field_name its name argument, for a Field),    *)
(* outcome what it returned or raised, and origin the argument of the call *)
(* whose result was fed to this one (NoOrigin for a call on a fresh        *)
(* argument).                                                              *)

NoOrigin == [k |-> "no origin", v |-> 0]

\* the DictWithDefault that instance i is, on the mapping its values refer to
Resolved(i) == DictWithDefault(heap[insts[i].values], insts[i].default)

Init ==
    /\ op = "none"
    /\ schema = AnyT
    /\ field_name = ""
    /\ data = MISSING
    /\ outcome = Ok(MISSING)
    /\ origin = NoOrigin
    /\ heap = (0 :> EmptyMap)
    /\ insts = <<>>
    /\ last = [kind |-> "none", inst |-> 0]

\* a call on a fresh argument, made when no call is in progress
Call(method, t, d, result) ==
    /\ op' = method
    /\ schema' = t
    /\ field_name' = ""
    /\ data' = d
    /\ outcome' = result
    /\ origin' = NoOrigin
    /\ UNCHANGED dictVars

CallLoad ==
    /\ op = "none"
    /\ \E c \in LoadCases : Call("load", c[1], c[2], Load(c[1], c[2]))

CallDump ==
    /\ op = "none"
    /\ \E c \in DumpCases : Call("dump", c[1], c[2], Dump(c[1], c[2]))

CallValidate ==
    /\ op = "none"
    /\ \E c \in LoadCases : Call("validate", c[1], c[2], Type_validate(c[1], c[2]))

\* field.dump(name, obj)
CallFieldDump ==
    /\ op = "none"
    /\ \E field \in DumpFields, n \in FieldNameSet, obj \in Records :
          /\ op' = "Field.dump"
          /\ schema' = field
          /\ field_name' = n
          /\ data' = obj
          /\ outcome' = Field_dump(field, n, obj)
          /\ origin' = NoOrigin
          /\ UNCHANGED dictVars

\* S.load(S.dump(r)): the load of what the dump just returned
LoadDumped ==
    /\ op = "dump"
    /\ schema.cls = "Object"
    /\ Returned(outcome)
    /\ op' = "load"
    /\ schema' = schema
    /\ field_name' = ""
    /\ data' = outcome.val
    /\ outcome' = Load(schema, outcome.val)
    /\ origin' = data
    /\ UNCHANGED dictVars

\* S.dump(S.load(d)): the dump of the record the load just returned
DumpLoaded ==
    /\ op = "load"
    /\ schema.cls = "Object"
    /\ origin = NoOrigin
    /\ Returned(outcome)
    /\ op' = "dump"
    /\ schema' = schema
    /\ field_name' = ""
    /\ data' = outcome.val
    /\ outcome' = Dump(schema, outcome.val)
    /\ origin' = data
    /\ UNCHANGED dictVars

\* the caller takes the outcome; the next call is independent of this one
Return ==
    /\ op # "none"
    /\ op' = "none"
    /\ schema' = AnyT
    /\ field_name' = ""
    /\ data' = MISSING
    /\ outcome' = Ok(MISSING)
    /\ origin' = NoOrigin
    /\ UNCHANGED dictVars

Next ==
    \/ CallLoad
    \/ CallDump
    \/ CallValidate
    \/ CallFieldDump
    \/ LoadDumped
    \/ DumpLoaded
    \/ Return

Spec == Init /\ [][Next]_vars

-----------------------------------------------------------------------------
(* The key-to-type lookups as objects.  heap maps each dict object to its  *)
(* content; object 0 is the dict that the default of the `values`          *)
(* parameter of DictWithDefault.__init__ was evaluated to when the class   *)
(* was defined.  insts are the DictWithDefault instances constructed so    *)
(* far, each with the dict its values attribute refers to.                 *)

DefaultValues == 0

NewRef == Cardinality(DOMAIN heap)

\* DictWithDefault(values=<a new dict>, default=default)
DictWithDefault_init(values, default) ==
    /\ Len(insts) < MaxInsts
    /\ heap' = heap @@ (NewRef :> values)
    /\ insts' = Append(insts, [values |-> NewRef, default |-> default])
    /\ last' = [kind |-> "init", inst |-> Len(insts) + 1]
    /\ UNCHANGED callVars

\* DictWithDefault(default=default): self.values = values, the default
DictWithDefault_init_default(default) ==
    /\ Len(insts) < MaxInsts
    /\ insts' = Append(insts, [values |-> DefaultValues, default |-> default])
    /\ last' = [kind |-> "init", inst |-> Len(insts) + 1]
    /\ UNCHANGED <<heap, callVars>>

\* Dict(value_type) with a Type: DictWithDefault(default=value_type)
Dict_init(value_type) ==
    /\ Len(insts) < MaxInsts
    /\ insts' = Append(insts, [values |-> DefaultValues, default |-> value_type])
    /\ last' = [kind |-> "Dict", inst |-> Len(insts) + 1]
    /\ UNCHANGED <<heap, callVars>>

SetItem(i, key, value) ==
    /\ heap' = [heap EXCEPT ![insts[i].values] = DictWithDefault_setitem(@, key, value)]
    /\ last' = [kind |-> "setitem", inst |-> i]
    /\ UNCHANGED <<insts, callVars>>

\* del on a key that is absent raises KeyError and changes nothing
DelItem(i, key) ==
    /\ key \in DOMAIN heap[insts[i].values]
    /\ heap' = [heap EXCEPT ![insts[i].values] = DictWithDefault_delitem(@, key)]
    /\ last' = [kind |-> "delitem", inst |-> i]
    /\ UNCHANGED <<insts, callVars>>

\* Dict.load of the Dict whose value_types is instance i
DictLoad(i, d) ==
    /\ op' = "load"
    /\ schema' = Dict(Resolved(i))
    /\ field_name' = ""
    /\ data' = d
    /\ outcome' = Load(Dict(Resolved(i)), d)
    /\ origin' = NoOrigin
    /\ last' = [kind |-> "load", inst |-> i]
    /\ UNCHANGED <<heap, insts>>

NextDict ==
    \/ \E values \in {EmptyMap, [a |-> Integer]}, default \in {NoType, Integer} :
          DictWithDefault_init(values, default)
    \/ \E default \in {NoType, Integer} : DictWithDefault_init_default(default)
    \/ \E value_type \in {Integer, String} : Dict_init(value_type)
    \/ \E i \in 1..Len(insts), key \in Keys, value \in {Integer, String} : SetItem(i, key, value)
    \/ \E i \in 1..Len(insts), key \in Keys : DelItem(i, key)
    \/ \E i \in 1..Len(insts), d \in {DictV(<<<<"a", IntV(1)>>>>), DictV(<<<<"a", StrV("x")>>>>)} :
          DictLoad(i, d)

SpecDict == Init /\ [][NextDict]_vars

-----------------------------------------------------------------------------
(* Properties *)

IsTree(o) == Invalid(o) /\ o.val.k = "tree"

TreeKeys(o) == DOMAIN o.val.v

Items(d) == {d.v[i] : i \in 1..Len(d.v)}

Required == ValidationError(Msg("Value is required"))

InvalidType(expected) == ValidationError(Msg("Value should be " \o expected))

ExpectedName(t) ==
    CASE t = Integer -> "integer"
      [] t = String -> "string"
      [] t = Boolean -> "boolean"

\* the run-time classes that are of the type's kind, each kind taken as
\* its own class only
OwnKind(t) ==
    CASE t = Integer -> {"int"}
      [] t = String -> {"str"}
      [] t = Boolean -> {"bool"}

\* the same, with a boolean counted as an integer
KindWithBoolAsInt(t) == IF t = Integer THEN {"int", "bool"} ELSE OwnKind(t)

ScalarLoadContract(kinds) ==
    (op = "load" /\ schema \in ScalarTypes) =>
        /\ outcome = Required <=> IsAbsent(data)
        /\ outcome = InvalidType(ExpectedName(schema))
              <=> (~IsAbsent(data) /\ data.k \notin kinds)
        /\ (~IsAbsent(data) /\ data.k \in kinds) => outcome = Ok(data)

\* C1, as stated: a scalar type without extra validators fails with
\* 'required' exactly on MISSING and None, with 'invalid_type' exactly on
\* the other values that are not integers (strings, booleans) for Integer
\* (String, Boolean), and returns every other value unchanged.
C1_ScalarLoad_Stated == ScalarLoadContract(OwnKind(schema))

\* C1, amended: the same, where for Integer a boolean value is of integer
\* kind too (Integer.load(True) returns True), while for Boolean an
\* integer is not of boolean kind.
C1_ScalarLoad == ScalarLoadContract(KindWithBoolAsInt(schema))

C1_Witness ==
    /\ op = "load"
    /\ schema = Integer
    /\ data = BoolV(TRUE)
    /\ outcome = Ok(BoolV(TRUE))

\* C2: validate never raises: it returns the empty mapping when load
\* succeeds and the messages of the validation failure when load fails,
\* whatever the type descriptor and the input.
C2_ValidateNeverRaises ==
    op = "validate" =>
        /\ Returned(outcome)
        /\ Returned(Load(schema, data)) => outcome.val = DictV(<<>>)
        /\ Invalid(Load(schema, data)) => outcome.val = Load(schema, data).val

\* the elements' loads of a List or Tuple load, by position
ItemLoad(i) ==
    Load(IF schema.cls = "List" THEN schema.of ELSE schema.of[i], data.v[i])

FailingIndices == {i - 1 : i \in {j \in 1..Len(data.v) : ~Returned(ItemLoad(j))}}

ElementwiseLoad ==
    IF FailingIndices # {}
    THEN IsTree(outcome) /\ TreeKeys(outcome) = FailingIndices
    ELSE outcome = Ok(ListV([i \in 1..Len(data.v) |-> ItemLoad(i).val]))

\* C3: List.load (no extra validators on the List) on a list attempts every
\* element: it raises the error tree keyed by exactly the indices whose
\* element fails to load, and returns the list of the converted elements
\* in order when none fails.
C3_ListLoadReportsEveryFailure ==
    (op = "load" /\ schema.cls = "List" /\ schema.validators = <<>> /\ is_list(data))
        => ElementwiseLoad

\* C3 on the item types whose own load never leaves by an exception other
\* than a validation failure (no Tuple among them)
ListLoadOfSoundItems ==
    (op = "load" /\ schema.cls = "List" /\ schema.validators = <<>> /\ is_list(data)
        /\ \A i \in 1..Len(data.v) : ~Crashed(ItemLoad(i)))
        => ElementwiseLoad

\* C4: Tuple.load (no extra validators on the Tuple) on a list fails with
\* 'invalid_length' and the expected length when the lengths differ, and
\* otherwise loads every position with its own type: the error tree keyed
\* by exactly the failing indices, or the sequence of converted elements.
C4_TupleLoad ==
    (op = "load" /\ schema.cls = "Tuple" /\ schema.validators = <<>> /\ is_list(data)) =>
        IF Len(data.v) # Len(schema.of)
        THEN outcome = ValidationError(Msg("Value length should be "
                                           \o ToString(Len(schema.of))))
        ELSE ElementwiseLoad

\* the part of C4 about the length check alone
TupleLoadLength ==
    (op = "load" /\ schema.cls = "Tuple" /\ is_list(data) /\ Len(data.v) # Len(schema.of)) =>
        outcome = ValidationError(Msg("Value length should be " \o ToString(Len(schema.of))))

\* the type a key of the input resolves to: the explicit entry, else the default
Resolve(key) ==
    IF key \in DOMAIN schema.of.values THEN schema.of.values[key] ELSE schema.of.default

ResolvedPositions == {i \in 1..Len(data.v) : Resolve(data.v[i][1]) # NoType}

ValueLoad(i) == Load(Resolve(data.v[i][1]), data.v[i][2])

\* C5: Dict.load skips a key that resolves to no type, with no output and
\* no error for it: the result's keys are exactly the input's keys that
\* resolve to a type, each with its loaded value; no error is recorded
\* under another key; the load succeeds when every resolved value loads;
\* and {"a": 1, "b": 2} under a lookup of "a" alone, with no default,
\* gives {"a": 1}.
C5_DictLoadSkipsUnresolvedKeys ==
    (op = "load" /\ schema.cls = "Dict" /\ is_dict(data)) =>
        /\ Returned(outcome) =>
              /\ is_dict(outcome.val)
              /\ Items(outcome.val)
                    = {<<data.v[i][1], ValueLoad(i).val>> : i \in ResolvedPositions}
        /\ IsTree(outcome) =>
              TreeKeys(outcome) \subseteq {data.v[i][1] : i \in ResolvedPositions}
        /\ (schema.validators = <<>> /\ \A i \in ResolvedPositions : Returned(ValueLoad(i)))
              => Returned(outcome)
        /\ (/\ schema = Dict(DictWithDefault([a |-> Integer], NoType))
            /\ data = DictV(<<<<"a", IntV(1)>>, <<"b", IntV(2)>>>>))
              => outcome = Ok(DictV(<<<<"a", IntV(1)>>>>))

C5_Witness ==
    /\ op = "load"
    /\ schema = Dict(DictWithDefault([a |-> Integer], NoType))
    /\ data = DictV(<<<<"a", IntV(1)>>, <<"b", IntV(2)>>>>)
    /\ outcome = Ok(DictV(<<<<"a", IntV(1)>>>>))

FieldAt(i) == schema.of.fields[i]

FailingFields ==
    {FieldAt(i)[1] : i \in {j \in 1..Len(schema.of.fields) :
                              ~Returned(Field_load(FieldAt(j)[2], FieldAt(j)[1], data))}}

UnknownKeys == DictKeys(data) \ FieldNames(schema)

\* C6: Object.load with allow_extra_fields=False (and no extra validators)
\* on a mapping processes every field and every input key: it raises the
\* error tree keyed by exactly the fields that fail to load and the input
\* keys that are no field, the latter with the 'unknown' message, and it
\* returns a record only when there is neither.
C6_ObjectLoadReportsEveryProblem ==
    (op = "load" /\ schema.cls = "Object" /\ ~schema.of.allow_extra_fields
        /\ schema.validators = <<>> /\ is_dict(data)) =>
        IF FailingFields \cup UnknownKeys # {}
        THEN /\ IsTree(outcome)
             /\ TreeKeys(outcome) = FailingFields \cup UnknownKeys
             /\ \A key \in UnknownKeys : outcome.val.v[key] = Msg("Unknown field")
        ELSE Returned(outcome)

\* C6 on the fields whose load never leaves by an exception other than a
\* validation failure (no Tuple among their types)
ObjectLoadOfSoundFields ==
    (op = "load" /\ schema.cls = "Object" /\ ~schema.of.allow_extra_fields
        /\ schema.validators = <<>> /\ is_dict(data)
        /\ \A i \in 1..Len(schema.of.fields) :
              ~Crashed(Field_load(FieldAt(i)[2], FieldAt(i)[1], data))) =>
        IF FailingFields \cup UnknownKeys # {}
        THEN /\ IsTree(outcome)
             /\ TreeKeys(outcome) = FailingFields \cup UnknownKeys
             /\ \A key \in UnknownKeys : outcome.val.v[key] = Msg("Unknown field")
        ELSE Returned(outcome)

\* the member a MethodField calls is absent from obj, or is not callable
BadTarget(field, n, obj) ==
    LET target == IF field.param # "" THEN field.param ELSE n
    IN ~(obj.k = "object" /\ target \in DOMAIN obj.v /\ obj.v[target].k = "method")

\* the positions of Object.dump's fields that are MethodFields with a bad target
BadMethodFields ==
    {i \in 1..Len(schema.of.fields) :
        FieldAt(i)[2].cls = "MethodField" /\ BadTarget(FieldAt(i)[2], FieldAt(i)[1], data)}

\* Object.dump's loop gets to position i: every field before it was dumped
DumpReaches(i) ==
    \A j \in 1..(i - 1) : Returned(Field_dump(FieldAt(j)[2], FieldAt(j)[1], data))

\* C7: the dump of a MethodField whose object lacks the target member, or
\* holds one that is not callable, raises ValueError (the authoring
\* defect), not a validation failure; and when Object.dump dumps such a
\* field, that ValueError leaves Object.dump and the field is never a key
\* of a raised error tree.
C7_MethodFieldDefectPropagates ==
    /\ (op = "Field.dump" /\ schema.cls = "MethodField"
          /\ BadTarget(schema, field_name, data)) => outcome.st = "ValueError"
    /\ (op = "dump" /\ schema.cls = "Object" /\ ~IsAbsent(data)) =>
          /\ \A i \in BadMethodFields : DumpReaches(i) => outcome.st = "ValueError"
          /\ IsTree(outcome) =>
                \A i \in BadMethodFields : FieldAt(i)[1] \notin TreeKeys(outcome)

C7_Witness ==
    /\ op = "dump"
    /\ schema.cls = "Object"
    /\ ~IsAbsent(data)
    /\ \E i \in BadMethodFields : i > 1 /\ DumpReaches(i)
    /\ outcome.st = "ValueError"

\* an Object without extra validators whose fields are all AttributeFields
\* with the default attribute name over scalar types without validators
AttributeSchema(t) ==
    /\ t.cls = "Object"
    /\ t.validators = <<>>
    /\ \A i \in 1..Len(t.of.fields) :
          /\ t.of.fields[i][2].cls = "AttributeField"
          /\ t.of.fields[i][2].param = ""
          /\ t.of.fields[i][2].field_type \in ScalarTypes \cup {AnyT}

\* r is of the kind the schema's constructor produces
ProducedBy(t, r) ==
    IF t.of.constructor = "dict"
    THEN is_dict(r) /\ DictKeys(r) \subseteq FieldNames(t)
    ELSE r.k = "object" /\ DOMAIN r.v \subseteq FieldNames(t)

\* C8, as stated: for a schema of attribute fields over scalar types and
\* every record r of the constructor's kind that dump accepts (the records
\* that load returns among them), load(dump(r)) returns r.
C8_RoundTrip_Stated ==
    (op = "load" /\ origin # NoOrigin /\ AttributeSchema(schema)
        /\ ProducedBy(schema, origin)) => outcome = Ok(origin)

\* C8, amended: load(dump(r)) returns r for a schema whose constructor
\* keeps its keyword arguments as the record's attributes, and dump accepts
\* every record that the load of such a schema returns; neither holds with
\* the default constructor, dict, whose records carry no such attributes.
C8_RoundTrip ==
    /\ (op = "load" /\ origin # NoOrigin /\ AttributeSchema(schema)
          /\ schema.of.constructor = "Record"
          /\ ProducedBy(schema, origin)) => outcome = Ok(origin)
    /\ (op = "dump" /\ origin # NoOrigin /\ AttributeSchema(schema)
          /\ schema.of.constructor = "Record") => Returned(outcome)

C8_Witness ==
    /\ op = "load"
    /\ AttributeSchema(schema)
    /\ schema.of.constructor = "Record"
    /\ Len(schema.of.fields) = 2
    /\ origin = ObjV([x |-> IntV(1), y |-> StrV("x")])
    /\ outcome = Ok(origin)

FieldDumpAt(i) == Field_dump(FieldAt(i)[2], FieldAt(i)[1], data)

\* C9: Object.dump on an object attempts every field: when fields fail
\* with a validation failure (and none with an authoring defect) it raises
\* the error tree keyed by exactly those fields' names, and when none
\* fails it returns the dumped values of the fields that did not yield
\* MISSING.
C9_ObjectDumpRecordsByFieldName ==
    (op = "dump" /\ schema.cls = "Object" /\ ~IsAbsent(data)
        /\ \A i \in 1..Len(schema.of.fields) : ~Crashed(FieldDumpAt(i))) =>
        LET failing == {i \in 1..Len(schema.of.fields) : Invalid(FieldDumpAt(i))}
            kept == {i \in 1..Len(schema.of.fields) :
                       Returned(FieldDumpAt(i)) /\ FieldDumpAt(i).val # MISSING}
        IN IF failing # {}
           THEN IsTree(outcome) /\ TreeKeys(outcome) = {FieldAt(i)[1] : i \in failing}
           ELSE /\ Returned(outcome)
                /\ Items(outcome.val) = {<<FieldAt(i)[1], FieldDumpAt(i).val>> : i \in kept}

\* what instance b answers: its length and its lookup of every key
Answers(b) ==
    [len |-> DictWithDefault_len(heap[insts[b].values]),
     items |-> [key \in Keys |->
                  DictWithDefault_getitem(heap[insts[b].values], insts[b].default, key)]]

\* C10: every lookup owns its mapping: a set-item or delete-item on one
\* DictWithDefault changes no answer (length, lookup of a key) of another.
C10_IndependentMappings ==
    [][\A b \in 1..Len(insts) :
          (last'.kind \in {"setitem", "delitem"} /\ last'.inst # b)
             => Answers(b)' = Answers(b)]_vars

====
